---- MODULE Spec2Model ----
(***************************************************************************)
(* ClaudeLLMAdapter (src/src/pipelines/claude.py): one adapter instance,   *)
(* its lifecycle hooks, and generate() split at its single suspension      *)
(* point (the await on the offloaded messages.create call).                *)
(*                                                                         *)
(* Python values carry their type: the str s is Str(s), the float written  *)
(* x is Float(x), None is None, an int is an integer, so that None, the    *)
(* str 'None' and the str '' are three values, and 0.6 is not '0.6'.       *)
(* Response text is a sequence of one-character strings so that join and   *)
(* strip can be computed; a dict is a function whose DOMAIN is its key     *)
(* set; an Anthropic client object is a record of its identity (which      *)
(* tells it from every other live client object) and the api_key it was    *)
(* constructed with.                                                       *)
(***************************************************************************)
EXTENDS Integers, Sequences, FiniteSets, Bags, TLC

VARIABLES
    anthropic,            \* module global: TRUE iff `import anthropic` succeeded
    _app_config,          \* getattr(getattr(app_config, "llm", None), "prompt", None)
    _provider_defaults,   \* self._provider_defaults
    _pipeline_defaults,   \* self._pipeline_defaults
    _client,              \* self._client: NoClient (None) or an Anthropic object
    tasks,                \* bag of the generate coroutines suspended on their await
    last,                 \* the most recently returned/raised method call
    eraBuilds,            \* history: client constructions since construction / last stop
    eraHandles,           \* history: handles dispatched through since construction / last stop
    eraFirstKey           \* history: api_key resolved by the first resolving generate since then

vars == <<anthropic, _app_config, _provider_defaults, _pipeline_defaults, _client,
          tasks, last, eraBuilds, eraHandles, eraFirstKey>>

----------------------------------------------------------------------------
(* Bounds of the model *)

\* generate calls suspended at the same time
MaxCalls == 2
\* content blocks in a raw response
MaxBlocks == 3
\* characters in the text of a content block
MaxTextLen == 1

----------------------------------------------------------------------------
(* Python values *)

None == <<"NoneType">>
Str(s) == <<"str", s>>
Float(x) == <<"float", x>>
EmptyDict == <<>>

\* truth value of None / str, as used by `or` and `if`: only None and '' are false
Falsy(v) == v \in {None, Str("")}

\* a or b
PyOr(a, b) == IF Falsy(a) THEN b ELSE a

\* d.get(k)
Get(d, k) == IF k \in DOMAIN d THEN d[k] ELSE None

\* {**a, **b}
Unpack(a, b) == b @@ a

\* d.setdefault(k, v), as the dict afterwards
SetDefault(d, k, v) == IF k \in DOMAIN d THEN d ELSE (k :> v) @@ d

DefaultModel == Str("claude-3-5-sonnet-20240620")
DefaultTemperature == Float("0.6")
DefaultMaxTokens == 256

NoError == "none"
ConfigError == "RuntimeError: Claude LLM requires an api_key"
DependencyMissing == "RuntimeError: anthropic package is not installed"
RemoteErrors == {"AuthenticationError", "RateLimitError"}

----------------------------------------------------------------------------
(* Input sets *)

RECURSIVE MapsOver(_, _)
MapsOver(V, D) ==
    IF D = {} THEN {EmptyDict}
    ELSE LET k == CHOOSE x \in D : TRUE
             rest == MapsOver(V, D \ {k})
         IN rest \cup {(k :> v) @@ m : v \in V[k], m \in rest}

\* all dicts with keys among DOMAIN V and d[k] \in V[k]
Dicts(V) == MapsOver(V, DOMAIN V)

ProviderConfigs == Dicts([api_key |-> {Str("k1")}])
PipelineConfigs == {EmptyDict, [api_key |-> Str("k1"), system |-> Str("s1")]}
\* the str 'None' is among the values: it is true, unlike None and ''
RuntimeOptions ==
    {EmptyDict, [api_key |-> Str("")], [api_key |-> Str("k2"), system |-> Str("")],
     [system |-> Str("None")]}
Prompts == {None, Str("g1")}
Transcripts == {Str("t1")}

MergeDicts ==
    Dicts([api_key |-> {Str("k1"), Str("k2")}, model |-> {Str("m1"), Str("m2")},
           temperature |-> {Float("0.2"), Float("0.9")}, max_tokens |-> {128}])

\* one whitespace character stands for all that str.strip removes
Whitespace == {" "}
Chars == {"a", "b"} \cup Whitespace

RECURSIVE SeqsUpTo(_, _)
SeqsUpTo(S, n) ==
    IF n = 0 THEN {<<>>}
    ELSE LET shorter == SeqsUpTo(S, n - 1)
         IN shorter \cup {Append(s, x) : s \in {t \in shorter : Len(t) = n - 1}, x \in S}

Block(type, text) == [type |-> type, text |-> text]
Blocks ==
    {Block("text", s) : s \in SeqsUpTo(Chars, MaxTextLen)} \cup {Block("tool_use", <<"b">>)}
Response(content) == [content |-> content]
AllResponses == {Response(c) : c \in SeqsUpTo(Blocks, MaxBlocks)}
SampleResponses ==
    {Response(<<Block("text", <<" ", "a">>), Block("tool_use", <<"b">>), Block("text", <<"b", " ">>)>>)}

----------------------------------------------------------------------------
(* Helpers of the adapter *)

\* variant: the defaults are filled into the caller's dict itself
_merge_options_inplace(runtime) ==
    LET m0 == Unpack(Unpack(_provider_defaults, _pipeline_defaults), runtime)
        m1 == SetDefault(m0, "model", DefaultModel)
        m2 == SetDefault(m1, "temperature", DefaultTemperature)
        m3 == SetDefault(m2, "max_tokens", DefaultMaxTokens)
    IN [merged |-> m3, runtime |-> IF runtime = EmptyDict THEN runtime ELSE m3]

\* variant: the layers unpacked in the opposite order
_merge_options_reversed(runtime) ==
    LET m0 == Unpack(Unpack(runtime, _pipeline_defaults), _provider_defaults)
        m1 == SetDefault(m0, "model", DefaultModel)
        m2 == SetDefault(m1, "temperature", DefaultTemperature)
        m3 == SetDefault(m2, "max_tokens", DefaultMaxTokens)
    IN [merged |-> m3, runtime |-> runtime]

\* _merge_options(runtime): the returned dict, and the argument dict afterwards
\* (`runtime or {}` is runtime itself unless it is empty, and then a new empty dict)
_merge_options(runtime) ==
    LET m0 == Unpack(Unpack(_provider_defaults, _pipeline_defaults), runtime)
        m1 == SetDefault(m0, "model", DefaultModel)
        m2 == SetDefault(m1, "temperature", DefaultTemperature)
        m3 == SetDefault(m2, "max_tokens", DefaultMaxTokens)
    IN [merged |-> m3, runtime |-> runtime]

\* an Anthropic client object
Anthropic(id, api_key) == [id |-> id, api_key |-> api_key]

NoClient == Anthropic(0, None)

\* the identities of the client objects still referenced: by self._client and
\* by the suspended generate calls
LiveIds == {_client.id} \cup {f.client.id : f \in BagToSet(tasks)}

\* anthropic.Anthropic(api_key=api_key): a new object
NewClient(api_key) ==
    Anthropic(CHOOSE n \in 1 .. Cardinality(LiveIds) + 1 :
                  n \notin LiveIds /\ \A m \in 1 .. n - 1 : m \in LiveIds,
              api_key)

\* variant: no test of the package being there
_build_client_unchecked(api_key) ==
    IF _client = NoClient
    THEN [err |-> NoError, client |-> NewClient(api_key), built |-> 1]
    ELSE [err |-> NoError, client |-> _client, built |-> 0]

\* variant: no test of self._client being None
_build_client_always(api_key) ==
    IF ~anthropic
    THEN [err |-> DependencyMissing, client |-> _client, built |-> 0]
    ELSE [err |-> NoError, client |-> NewClient(api_key), built |-> 1]

\* variant: a new client whenever the api_key differs from the held client's
_build_client_rekey(api_key) ==
    IF ~anthropic
    THEN [err |-> DependencyMissing, client |-> _client, built |-> 0]
    ELSE IF _client = NoClient \/ _client.api_key # api_key
    THEN [err |-> NoError, client |-> NewClient(api_key), built |-> 1]
    ELSE [err |-> NoError, client |-> _client, built |-> 0]

\* _build_client(api_key): the error raised, self._client afterwards (which is
\* what it returns) and the number of client objects it constructed
_build_client(api_key) ==
    IF ~anthropic
    THEN [err |-> DependencyMissing, client |-> _client, built |-> 0]
    ELSE IF _client = NoClient
    THEN [err |-> NoError, client |-> NewClient(api_key), built |-> 1]
    ELSE [err |-> NoError, client |-> _client, built |-> 0]

\* variant: a further fallback to a key taken from the environment
resolve_api_key_env(merged) ==
    PyOr(PyOr(Get(merged, "api_key"), Get(_provider_defaults, "api_key")), Str("env"))

\* api_key = merged.get("api_key") or self._provider_defaults.get("api_key")
resolve_api_key(merged) ==
    PyOr(Get(merged, "api_key"), Get(_provider_defaults, "api_key"))

Message(role, content) == [role |-> role, content |-> content]

\* variant: the system entry appended after the user entry
build_messages_user_first(merged, transcript) ==
    LET system_prompt == PyOr(Get(merged, "system"), _app_config)
        messages0 == <<Message("user", transcript)>>
    IN IF ~Falsy(system_prompt)
       THEN Append(messages0, Message("system", system_prompt))
       ELSE messages0

\* the messages list generate builds (lines 94-98)
build_messages(merged, transcript) ==
    LET system_prompt == PyOr(Get(merged, "system"), _app_config)
        messages0 == <<>>
        messages1 == IF ~Falsy(system_prompt)
                     THEN Append(messages0, Message("system", system_prompt))
                     ELSE messages0
    IN Append(messages1, Message("user", transcript))

RECURSIVE lstrip(_)
lstrip(s) == IF s # <<>> /\ Head(s) \in Whitespace THEN lstrip(Tail(s)) ELSE s

RECURSIVE rstrip(_)
rstrip(s) ==
    IF s # <<>> /\ s[Len(s)] \in Whitespace THEN rstrip(SubSeq(s, 1, Len(s) - 1)) ELSE s

\* str.strip()
strip(s) == rstrip(lstrip(s))

\* "".join(parts)
RECURSIVE join(_)
join(parts) == IF parts = <<>> THEN <<>> ELSE Head(parts) \o join(Tail(parts))

\* the loop collecting block.text of the blocks whose type is "text"
RECURSIVE text_parts(_)
text_parts(content) ==
    IF content = <<>> THEN <<>>
    ELSE (IF Head(content).type = "text" THEN <<Head(content).text>> ELSE <<>>)
         \o text_parts(Tail(content))

LLMResponse(text, tool_calls, metadata) ==
    [text |-> text, tool_calls |-> tool_calls, metadata |-> metadata]

NoResponse == LLMResponse(<<>>, <<>>, EmptyDict)

\* variant: only leading whitespace removed
normalize_lstrip(resp, merged) ==
    LLMResponse(lstrip(join(text_parts(resp.content))), <<>>, [model |-> merged["model"]])

\* lines 112-119: the LLMResponse built from the raw response
normalize(resp, merged) ==
    LLMResponse(strip(join(text_parts(resp.content))), <<>>, [model |-> merged["model"]])

----------------------------------------------------------------------------
(* State *)

\* the frame of a generate coroutine: runtime is the options argument as passed,
\* options the caller's dict object as it is now, client/merged/messages the locals
\* the offloaded lambda captured, sent the number of messages.create calls made
NoFrame ==
    [transcript |-> Str(""), runtime |-> EmptyDict, options |-> EmptyDict, api_key |-> None,
     client |-> NoClient, merged |-> EmptyDict, messages |-> <<>>, sent |-> 0]

\* what the awaited messages.create call did: raised err, or returned resp
Remote(err, resp) == [err |-> err, resp |-> resp]

NoRemote == Remote(NoError, Response(<<>>))

\* a finished method call: what it raised or returned, and what it did
Call(op, err, log, f, remote, returned, ret) ==
    [op |-> op, err |-> err, log |-> log, transcript |-> f.transcript,
     runtime |-> f.runtime, options |-> f.options, merged |-> f.merged,
     messages |-> f.messages, sent |-> f.sent,
     remote |-> remote, returned |-> returned, ret |-> ret]

Hook(op, err, log) == Call(op, err, log, NoFrame, NoRemote, FALSE, NoResponse)

InFlight == BagToSet(tasks)

\* __init__: no client, no side effects
Constructed(provider_config, pipeline_options, prompt) ==
    /\ _app_config = prompt
    /\ _provider_defaults = provider_config
    /\ _pipeline_defaults = pipeline_options
    /\ _client = NoClient
    /\ tasks = EmptyBag
    /\ last = Hook("__init__", NoError, "")
    /\ eraBuilds = 0
    /\ eraHandles = {}
    /\ eraFirstKey = None

Init ==
    /\ anthropic \in BOOLEAN
    /\ \E p \in ProviderConfigs, q \in PipelineConfigs, g \in Prompts : Constructed(p, q, g)

----------------------------------------------------------------------------
(* Operations *)

config == <<anthropic, _app_config, _provider_defaults, _pipeline_defaults>>
history == <<eraBuilds, eraHandles, eraFirstKey>>

Start ==
    /\ last' = Hook("start", NoError, IF ~anthropic THEN "warning" ELSE "debug")
    /\ UNCHANGED <<config, _client, tasks, history>>

\* variant: the held client is closed first, which fails when there is none
stop_close ==
    IF _client = NoClient
    THEN [err |-> "AttributeError", client |-> _client]
    ELSE [err |-> NoError, client |-> NoClient]

\* the body of stop: self._client = None
stop == [err |-> NoError, client |-> NoClient]

Stop ==
    /\ _client' = stop.client
    /\ last' = Hook("stop", stop.err, "")
    /\ eraBuilds' = 0
    /\ eraHandles' = {}
    /\ eraFirstKey' = None
    /\ UNCHANGED <<config, tasks>>

OpenCall(opts) ==
    /\ last' = Hook("open_call", NoError, "")
    /\ UNCHANGED <<config, _client, tasks, history>>

CloseCall ==
    /\ last' = Hook("close_call", NoError, "")
    /\ UNCHANGED <<config, _client, tasks, history>>

\* generate, from its entry to the await on run_in_executor (or to the raise);
\* only a call that reaches the await counts against MaxCalls, a call that
\* raises before it runs in every state
GenerateBegin(transcript, opts) ==
    /\ LET mo == _merge_options(opts)
           merged == mo.merged
           api_key == resolve_api_key(merged)
           bc == _build_client(api_key)
           messages == build_messages(merged, transcript)
           f0 == [NoFrame EXCEPT !.transcript = transcript, !.runtime = opts,
                                 !.options = mo.runtime, !.merged = merged]
           f1 == [f0 EXCEPT !.api_key = api_key]
           f2 == [f1 EXCEPT !.client = bc.client, !.messages = messages, !.sent = 1]
       IN IF Falsy(api_key)
          THEN /\ last' = Call("generate", ConfigError, "", f0, NoRemote, FALSE, NoResponse)
               /\ UNCHANGED <<_client, tasks, history>>
          ELSE /\ eraFirstKey' = IF eraFirstKey = None THEN api_key ELSE eraFirstKey
               /\ _client' = bc.client
               /\ eraBuilds' = eraBuilds + bc.built
               /\ IF bc.err # NoError
                  THEN /\ last' = Call("generate", bc.err, "", f1, NoRemote, FALSE, NoResponse)
                       /\ UNCHANGED <<tasks, eraHandles>>
                  ELSE /\ BagCardinality(tasks) < MaxCalls
                       /\ tasks' = tasks (+) SetToBag({f2})
                       /\ eraHandles' = eraHandles \cup {bc.client}
                       /\ UNCHANGED last
    /\ UNCHANGED config

\* the offloaded messages.create call returns resp; generate resumes and returns
GenerateComplete(f, resp) ==
    /\ BagIn(f, tasks)
    /\ last' = Call("generate", NoError, "debug", f, Remote(NoError, resp), TRUE,
                    normalize(resp, f.merged))
    /\ tasks' = tasks (-) SetToBag({f})
    /\ UNCHANGED <<config, _client, history>>

\* variant: the call is dispatched once more before the error is raised
remote_failure_retry(f, e) ==
    IF f.sent < 2
    THEN [raise |-> FALSE, err |-> NoError, sent |-> f.sent + 1]
    ELSE [raise |-> TRUE, err |-> e, sent |-> f.sent]

\* what generate does when the awaited call raises e: nothing catches it
remote_failure(f, e) == [raise |-> TRUE, err |-> e, sent |-> f.sent]

\* the offloaded messages.create call raises e
GenerateFail(f, e) ==
    /\ BagIn(f, tasks)
    /\ LET rf == remote_failure(f, e)
           g == [f EXCEPT !.sent = rf.sent]
       IN IF rf.raise
          THEN /\ last' = Call("generate", rf.err, "", g, Remote(e, Response(<<>>)),
                               FALSE, NoResponse)
               /\ tasks' = tasks (-) SetToBag({f})
          ELSE /\ tasks' = (tasks (-) SetToBag({f})) (+) SetToBag({g})
               /\ UNCHANGED last
    /\ UNCHANGED <<config, _client, history>>

Generate == \E t \in Transcripts, o \in RuntimeOptions : GenerateBegin(t, o)

Complete == \E f \in InFlight, r \in SampleResponses : GenerateComplete(f, r)

Fail == \E f \in InFlight, e \in RemoteErrors : GenerateFail(f, e)

Open == \E o \in RuntimeOptions : OpenCall(o)

Next == Start \/ Stop \/ Open \/ CloseCall \/ Generate \/ Complete \/ Fail

Spec == Init /\ [][Next]_vars

----------------------------------------------------------------------------
(* Option merging alone: every combination of the three layers *)

InitMerge ==
    /\ anthropic = TRUE
    /\ \E p \in MergeDicts, q \in MergeDicts : Constructed(p, q, None)

\* a direct call of _merge_options(runtime) on the freshly constructed adapter
MergeCall(runtime) ==
    /\ last.op = "__init__"
    /\ LET mo == _merge_options(runtime)
       IN last' = Call("_merge_options", NoError, "",
                       [NoFrame EXCEPT !.runtime = runtime, !.options = mo.runtime,
                                       !.merged = mo.merged],
                       NoRemote, TRUE, NoResponse)
    /\ UNCHANGED <<config, _client, tasks, history>>

NextMerge == \E r \in MergeDicts : MergeCall(r)

SpecMerge == InitMerge /\ [][NextMerge]_vars

----------------------------------------------------------------------------
(* Response normalisation: one generate call, every raw response *)

InitText ==
    /\ anthropic = TRUE
    /\ \E q \in {EmptyDict, [model |-> Str("m1")]} : Constructed([api_key |-> Str("k1")], q, None)

GenerateText ==
    /\ last.op = "__init__"
    /\ tasks = EmptyBag
    /\ \E t \in Transcripts : GenerateBegin(t, EmptyDict)

CompleteText == \E f \in InFlight, r \in AllResponses : GenerateComplete(f, r)

NextText == GenerateText \/ CompleteText

SpecText == InitText /\ [][NextText]_vars

----------------------------------------------------------------------------
(* Properties *)

AllKeys == {"api_key", "system", "model", "temperature", "max_tokens"}

HardDefaults ==
    [model |-> DefaultModel, temperature |-> DefaultTemperature, max_tokens |-> DefaultMaxTokens]

\* the value the three layers give key k, highest precedence first
Layered(runtime, k) ==
    IF k \in DOMAIN runtime THEN runtime[k]
    ELSE IF k \in DOMAIN _pipeline_defaults THEN _pipeline_defaults[k]
    ELSE _provider_defaults[k]

InSomeLayer(runtime, k) ==
    k \in DOMAIN runtime \cup DOMAIN _pipeline_defaults \cup DOMAIN _provider_defaults

\* C1: the dict _merge_options returns maps every key to the value of the
\* highest-precedence layer holding it (runtime, then pipeline, then provider);
\* model, temperature and max_tokens get their hard-coded default exactly when
\* no layer holds them; no other key appears.
C1_MergePrecedence ==
    last.op = "_merge_options" =>
        \A k \in AllKeys :
            IF InSomeLayer(last.runtime, k)
            THEN k \in DOMAIN last.merged /\ last.merged[k] = Layered(last.runtime, k)
            ELSE IF k \in DOMAIN HardDefaults
            THEN k \in DOMAIN last.merged /\ last.merged[k] = HardDefaults[k]
            ELSE k \notin DOMAIN last.merged

C1_Witness ==
    /\ last.op = "_merge_options"
    /\ _provider_defaults = [api_key |-> Str("k1"), temperature |-> Float("0.2")]
    /\ _pipeline_defaults = [model |-> Str("m1")]
    /\ last.runtime = [temperature |-> Float("0.9")]
    /\ last.merged = [api_key |-> Str("k1"), temperature |-> Float("0.9"),
                      model |-> Str("m1"), max_tokens |-> 256]

NoKeyAnywhere(opts) ==
    /\ Falsy(Get(opts, "api_key"))
    /\ Falsy(Get(_pipeline_defaults, "api_key"))
    /\ Falsy(Get(_provider_defaults, "api_key"))

\* C2: in every adapter state, however many calls are suspended, a generate
\* call with no api_key in provider defaults, pipeline defaults or runtime
\* options runs and raises the configuration error; it is never in flight
\* (nothing is dispatched for it), and the step that raises constructs no
\* client and leaves the calls in flight as they were.
C2_NoKeyFails ==
    /\ [](\A t \in Transcripts, o \in RuntimeOptions :
              NoKeyAnywhere(o) => ENABLED GenerateBegin(t, o))
    /\ [](\A f \in InFlight : ~NoKeyAnywhere(f.runtime))
    /\ []((last.op = "generate" /\ NoKeyAnywhere(last.runtime)) =>
              (last.err = ConfigError /\ last.sent = 0 /\ ~last.returned))
    /\ [][(last' # last /\ last'.op = "generate" /\ NoKeyAnywhere(last'.runtime)) =>
              (_client' = _client /\ eraBuilds' = eraBuilds /\ tasks' = tasks)]_vars

C2_Witness ==
    /\ BagCardinality(tasks) = MaxCalls
    /\ last.op = "generate"
    /\ last.err = ConfigError
    /\ NoKeyAnywhere(last.runtime)
    /\ "api_key" \in DOMAIN last.runtime

\* C3: between construction (or the most recent stop) and the next stop the
\* client is constructed at most once, with the api_key of the first generate
\* call that resolved one; every later call dispatches through that same
\* object, whatever api_key it resolved.
C3_BuiltOncePerEra ==
    /\ eraBuilds <= 1
    /\ _client # NoClient => (eraBuilds = 1 /\ _client.api_key = eraFirstKey)
    /\ (anthropic /\ eraFirstKey # None) => _client # NoClient
    /\ eraHandles \subseteq {_client}

C3_Witness ==
    \E f \in InFlight :
        /\ f.client = _client
        /\ f.api_key # _client.api_key
        /\ eraBuilds = 1

SystemEntries(messages) == {i \in DOMAIN messages : messages[i].role = "system"}
UserEntries(messages) == {i \in DOMAIN messages : messages[i].role = "user"}

\* the message lists handed to messages.create: of the calls in flight and of
\* the call that finished last (if it got that far)
Dispatches ==
    InFlight \cup (IF last.op = "generate" /\ last.sent > 0
                   THEN {[merged |-> last.merged, messages |-> last.messages,
                          transcript |-> last.transcript]}
                   ELSE {})

UserLastOnce(d) ==
    /\ d.messages[Len(d.messages)] = Message("user", d.transcript)
    /\ UserEntries(d.messages) = {Len(d.messages)}

\* C4 as stated: whenever the effective options hold a system key there is
\* exactly one system entry, followed by the user entry; with no system key and
\* no global prompt the list is the user entry alone.
C4_Original ==
    \A d \in Dispatches :
        /\ "system" \in DOMAIN d.merged =>
               /\ Len(d.messages) = 2
               /\ SystemEntries(d.messages) = {1}
        /\ ("system" \notin DOMAIN d.merged /\ Falsy(_app_config)) =>
               d.messages = <<Message("user", d.transcript)>>
        /\ UserLastOnce(d)

\* C4 (amended): when the effective options hold a non-empty system value the
\* list is that value as one system entry followed by the user entry; with no
\* system key and no global prompt the list is the user entry alone; the user
\* entry is always last and appears once.
C4_Messages ==
    \A d \in Dispatches :
        /\ ~Falsy(Get(d.merged, "system")) =>
               d.messages = <<Message("system", d.merged["system"]),
                              Message("user", d.transcript)>>
        /\ ("system" \notin DOMAIN d.merged /\ Falsy(_app_config)) =>
               d.messages = <<Message("user", d.transcript)>>
        /\ UserLastOnce(d)

C4_Witness ==
    /\ \E d \in InFlight : Get(d.merged, "system") = Str("None") /\ Len(d.messages) = 2
    /\ \E d \in InFlight : "system" \notin DOMAIN d.merged /\ Len(d.messages) = 1

\* the texts of the text-typed segments, in order, one after the other
RECURSIVE Concatenation(_)
Concatenation(content) ==
    IF content = <<>> THEN <<>>
    ELSE LET n == Len(content)
         IN Concatenation(SubSeq(content, 1, n - 1))
            \o (IF content[n].type = "text" THEN content[n].text ELSE <<>>)

\* r is s without its leading and trailing whitespace
Trimmed(r, s) ==
    /\ r = <<>> \/ (r[1] \notin Whitespace /\ r[Len(r)] \notin Whitespace)
    /\ \E i \in 0 .. Len(s) :
           /\ i + Len(r) <= Len(s)
           /\ r = SubSeq(s, i + 1, i + Len(r))
           /\ \A j \in 1 .. Len(s) : (j <= i \/ j > i + Len(r)) => s[j] \in Whitespace

\* C5: a generate call that returns gives the text of the text-typed segments
\* of the raw response, concatenated in order and trimmed of leading and
\* trailing whitespace, an empty tool-call list and the merged model name.
C5_ResponseText ==
    (last.op = "generate" /\ last.returned) =>
        /\ Trimmed(last.ret.text, Concatenation(last.remote.resp.content))
        /\ last.ret.tool_calls = <<>>
        /\ last.ret.metadata = [model |-> last.merged["model"]]
        /\ last.merged["model"] =
               (IF "model" \in DOMAIN _pipeline_defaults
                THEN _pipeline_defaults["model"] ELSE DefaultModel)

C5_Witness ==
    /\ last.op = "generate"
    /\ last.returned
    /\ last.remote.resp.content =
           <<Block("text", <<" ">>), Block("tool_use", <<"b">>), Block("text", <<"a">>)>>
    /\ last.ret.text = <<"a">>

\* C6: stop can be called in every state, never raises, leaves the client
\* unset and dispatches nothing.
C6_StopSafe ==
    /\ [](ENABLED Stop)
    /\ [][Stop => /\ last'.op = "stop"
                  /\ last'.err = NoError
                  /\ _client' = NoClient
                  /\ tasks' = tasks]_vars

C6_Witness ==
    /\ last.op = "stop"
    /\ last.err = NoError
    /\ _client = NoClient
    /\ eraFirstKey = None
    /\ tasks # EmptyBag

\* C7: without the client library, construction and start do not fail, every
\* generate call fails, nothing is dispatched and the client stays unset.
C7_DependencyMissing ==
    ~anthropic =>
        /\ last.op \in {"__init__", "start"} => last.err = NoError
        /\ last.op = "start" => last.log = "warning"
        /\ last.op = "generate" =>
               (last.err \in {ConfigError, DependencyMissing} /\ last.sent = 0 /\ ~last.returned)
        /\ tasks = EmptyBag
        /\ _client = NoClient
        /\ eraBuilds = 0

C7_Witness ==
    /\ ~anthropic
    /\ last.op = "generate"
    /\ last.err = DependencyMissing

\* C8: the caller's options dict holds after generate what it held when it was
\* passed, while the call is suspended and after it returned or raised.
C8_OptionsUntouched ==
    /\ \A f \in InFlight : f.options = f.runtime
    /\ last.op = "generate" => last.options = last.runtime

C8_Witness ==
    /\ last.op = "generate"
    /\ last.returned
    /\ last.runtime # EmptyDict
    /\ "model" \notin DOMAIN last.options
    /\ last.merged["model"] = DefaultModel

\* C9: a generate call hands at most one messages.create call to the executor;
\* when that call raises, generate raises the same error, returns nothing and
\* has dispatched exactly once.
C9_NoRetry ==
    /\ \A f \in InFlight : f.sent = 1
    /\ last.op = "generate" =>
           /\ last.sent <= 1
           /\ last.remote.err # NoError =>
                  /\ last.err = last.remote.err
                  /\ last.sent = 1
                  /\ ~last.returned
                  /\ last.ret = NoResponse

C9_Witness ==
    /\ last.op = "generate"
    /\ last.remote.err = "RateLimitError"
    /\ last.err = "RateLimitError"

\* C10: generate calls suspended at the same time that began since the last
\* stop all hold the same client object, which was constructed once.
C10_SharedHandle ==
    /\ \A f, g \in InFlight :
           (f.client \in eraHandles /\ g.client \in eraHandles) => f.client = g.client
    /\ Cardinality(eraHandles) <= 1
    /\ eraHandles # {} => eraBuilds = 1

C10_Witness ==
    /\ BagCardinality(tasks) >= 2
    /\ eraBuilds = 1
    /\ \A f \in InFlight : f.client = _client
    /\ \E f, g \in InFlight : f.api_key # g.api_key

====
